---- MODULE Spec2Model ----
(***************************************************************************)
(* Model of make_shop_with_currency.py: the denomination selector          *)
(* (to_currency / to_weight), the tag filters, the run pipeline and the    *)
(* word-wrapping string_box of the terminal table.                         *)
(*                                                                         *)
(* Numbers.  Prices, weights and unit ratios are reals in the program.     *)
(* Here a value and the ratios of a unit table are integer multiples of a  *)
(* common grain (1/100 gp, 1/16 lb.), so value / ratio is an exact         *)
(* rational and int(value / ratio) is the integer quotient value \div      *)
(* ratio.  Binary floating point rounding of the quotient is not modelled. *)
(*                                                                         *)
(* Specifications.                                                         *)
(*   Spec        run: loading, tag filters, unit tables, create_store      *)
(*   SpecFilter  the tag filters of run on every loaded collection         *)
(*   SpecSelect  to_currency and to_weight on one value and one table      *)
(*   SpecBox     string_box, one step per pass of its loop                 *)
(***************************************************************************)
EXTENDS Integers, Sequences, FiniteSets, TLC

(* ------------------------------ bounds --------------------------------- *)
MaxValue == 24
MaxRatio == 3
RatioStep == 10
MaxSigfigs == 2
MaxLen == 6
MaxW == 4
MaxItems == 3
MaxFiles == 2

(* --------------------------- state ------------------------------------- *)
VARIABLES
    \* the denomination selector, one row of create_store
    value,       \* src_price / src_weight handed to the selector
    units,       \* currency_dict / weight_dict: label -> ratio
    sigfigs,     \* kwargs.sigfigs
    nofree,      \* kwargs.free == False
    priceCell,   \* result of to_currency
    weightCell,  \* result of to_weight
    selpc,       \* position in the row conversion of create_store
    \* string_box
    boxText,     \* the text argument
    w,           \* the column width
    align,       \* the alignment
    text,        \* the local text: what is left to wrap
    lines,       \* the local lines
    boxpc,       \* position in string_box
    \* run
    source_files, \* kwargs.source_files
    include,      \* kwargs.include, unwrapped; <<>> stands for None
    require,      \* kwargs.require
    exclude,      \* kwargs.exclude
    nostd,        \* kwargs.nostd
    free,         \* kwargs.free
    currencies,   \* kwargs.currencies, parsed into <<label, ratio>>; <<>> for None
    weights,      \* kwargs.weights
    collection,   \* the local collection of run
    loaded,       \* collection as it leaves the loading loop
    nextSrc,      \* index of the next source file of the loading loop
    currency_dict,
    weight_dict,
    out_rows,     \* out_rows of create_store
    runpc         \* position in run

selVars == <<value, units, sigfigs, nofree, priceCell, weightCell, selpc>>
boxVars == <<boxText, w, align, text, lines, boxpc>>
runVars == <<source_files, include, require, exclude, nostd, free, currencies,
             weights, collection, loaded, nextSrc, currency_dict, weight_dict,
             out_rows, runpc>>
vars == <<selVars, boxVars, runVars>>

(* ------------------------- unit tables --------------------------------- *)
Labels == {"cp", "gp", "sp"}

\* Python compares the labels of equal counts / ratios as strings.
LabelRank(l) ==
    CASE l = "cp"  -> 1
      [] l = "ep"  -> 2
      [] l = "gp"  -> 3
      [] l = "kg"  -> 4
      [] l = "lb." -> 5
      [] l = "oz"  -> 6
      [] l = "sp"  -> 7
      [] l = "ton" -> 8

\* ratios of a unit table, in grains: small ones and their multiples
Ratios == (1..MaxRatio) \cup {RatioStep * k : k \in 1..MaxRatio}

UnitTables == UNION {[S -> Ratios] : S \in SUBSET Labels}

\* cells of the item table: a number, an absent cell (NaN), a text
Num(n) == [kind |-> "num", v |-> n]
NaN == [kind |-> "nan"]
Str(t) == [kind |-> "str", s |-> t]
NoCell == [kind |-> "none"]

(* ------------------------- list.sort() on pairs ------------------------ *)
TupleLess(a, b) ==
    \/ a[1] < b[1]
    \/ a[1] = b[1] /\ LabelRank(a[2]) < LabelRank(b[2])

RECURSIVE SortTuples(_)
SortTuples(S) ==
    IF S = {} THEN <<>>
    ELSE LET m == CHOOSE x \in S : \A y \in S \ {x} : TupleLess(x, y)
         IN  <<m>> \o SortTuples(S \ {m})

(* ------------------------------ int_digits ----------------------------- *)
RECURSIVE Log10Floor(_)
Log10Floor(x) == IF x < 10 THEN 0 ELSE 1 + Log10Floor(x \div 10)

int_digits(x) ==
    IF x = 0 THEN 0
    ELSE IF x >= 1 THEN Log10Floor(x) + 1
    ELSE Log10Floor(-x)

(* ------------------------------ format_number -------------------------- *)
\* x is always a whole number here; the tier decides how it is printed.
format_number(x, sf) ==
    IF x >= 10000 THEN [tier |-> "suffix", x |-> x, decimals |-> sf]
    ELSE IF x >= 1000 THEN [tier |-> "commas", x |-> x, decimals |-> 0]
    ELSE [tier |-> "int", x |-> x, decimals |-> 0]

(* --------------------------- the scan loop ----------------------------- *)
\* i = 0; while i < len(int_key_list) - 1: if sigfig_list[i] >= sigfigs: break; i += 1
\* (indices are 1-based here)
\* variant: the threshold test written with > instead of >=
RECURSIVE ScanFrom_gt(_, _, _)
ScanFrom_gt(int_key_list, sf, i) ==
    IF i < Len(int_key_list)
    THEN IF int_digits(int_key_list[i][1]) > sf THEN i
         ELSE ScanFrom_gt(int_key_list, sf, i + 1)
    ELSE i

\* variant: the break is missing, the scan always runs to the last element
ScanFrom_nobreak(int_key_list, sf, i) == Len(int_key_list)

RECURSIVE ScanFrom(_, _, _)
ScanFrom(int_key_list, sf, i) ==
    IF i < Len(int_key_list)
    THEN IF int_digits(int_key_list[i][1]) >= sf THEN i
         ELSE ScanFrom(int_key_list, sf, i + 1)
    ELSE i

\* variant: the count is rounded up instead of truncated
IntKeyList_ceil(v, dict) ==
    SortTuples({<<(v + dict[c] - 1) \div dict[c], c>> : c \in DOMAIN dict})

IntKeyList(v, dict) ==
    SortTuples({<<v \div dict[c], c>> : c \in DOMAIN dict})

\* variant: the list of denominations is read from the wrong end
SmallestDenomination_last(dict) ==
    LET l == SortTuples({<<dict[k], k>> : k \in DOMAIN dict}) IN l[Len(l)][2]

SmallestDenomination(dict) ==
    SortTuples({<<dict[k], k>> : k \in DOMAIN dict})[1][2]

\* variant: the override also fires for a count of 1
OverrideCond_le1(num) == num <= 1

OverrideCond(num) == num <= 0

(* ------------------------------ to_currency ---------------------------- *)
to_currency(src_price, coins, sf, nf) ==
    IF src_price.kind = "str" THEN [kind |-> "ValueError"]
    ELSE IF DOMAIN coins = {}
    THEN [kind |-> "raw", src |-> src_price, decimals |-> sf]
    ELSE IF src_price.kind = "nan" THEN [kind |-> "ValueError"]
    ELSE
      LET int_key_list == IntKeyList(src_price.v, coins)
          i == ScanFrom(int_key_list, sf, 1)
          num_coins == int_key_list[i][1]
          coin_label == int_key_list[i][2]
      IN  IF OverrideCond(num_coins)
          THEN LET n == IF nf /\ num_coins <= 0 THEN 1 ELSE num_coins
               IN [kind |-> "cell", pick |-> coin_label, override |-> TRUE,
                   num |-> n, shown |-> format_number(n, sf),
                   label |-> SmallestDenomination(coins)]
          ELSE [kind |-> "cell", pick |-> coin_label, override |-> FALSE,
                num |-> num_coins, shown |-> format_number(num_coins, sf),
                label |-> coin_label]

(* ------------------------------ to_weight ------------------------------ *)
to_weight(src_weight, wunits, sf) ==
    IF src_weight.kind = "str" THEN [kind |-> "ValueError"]
    ELSE IF DOMAIN wunits = {}
    THEN [kind |-> "raw", src |-> src_weight, decimals |-> sf]
    ELSE IF src_weight.kind = "nan" THEN [kind |-> "ValueError"]
    ELSE
      LET int_key_list == IntKeyList(src_weight.v, wunits)
          i == ScanFrom(int_key_list, sf, 1)
          num_w == int_key_list[i][1]
          w_label == int_key_list[i][2]
      IN  IF OverrideCond(num_w)
          THEN [kind |-> "cell", pick |-> w_label, override |-> TRUE,
                num |-> num_w, shown |-> format_number(num_w, sf),
                label |-> SmallestDenomination(wunits)]
          ELSE [kind |-> "cell", pick |-> w_label, override |-> FALSE,
                num |-> num_w, shown |-> format_number(num_w, sf),
                label |-> w_label]

(* --------------------- idle values of the three parts ------------------ *)
SelIdle ==
    /\ value = 0 /\ units = <<>> /\ nofree = TRUE
    /\ priceCell = NoCell /\ weightCell = NoCell /\ selpc = "idle"
BoxIdle ==
    /\ boxText = <<>> /\ w = 0 /\ align = "left"
    /\ text = <<>> /\ lines = <<>> /\ boxpc = "idle"
RunIdle ==
    /\ source_files = <<>> /\ include = <<>> /\ require = <<>> /\ exclude = <<>>
    /\ nostd = FALSE /\ free = FALSE /\ currencies = <<>> /\ weights = <<>>
    /\ collection = [none |-> TRUE] /\ loaded = [none |-> TRUE] /\ nextSrc = 0
    /\ currency_dict = <<>> /\ weight_dict = <<>> /\ out_rows = <<>>
    /\ runpc = "idle"

(* --------------------- selector specification -------------------------- *)
InitSelect ==
    /\ value \in 0..MaxValue
    /\ units \in UnitTables
    /\ sigfigs \in 1..MaxSigfigs
    /\ nofree \in BOOLEAN
    /\ priceCell = NoCell
    /\ weightCell = NoCell
    /\ selpc = "price"
    /\ BoxIdle /\ RunIdle

\* create_store, column 'Price (gp)'
PriceColumn ==
    /\ selpc = "price"
    /\ priceCell' = to_currency(Num(value), units, sigfigs, nofree)
    /\ selpc' = "weight"
    /\ UNCHANGED <<value, units, sigfigs, nofree, weightCell, boxVars, runVars>>

\* create_store, column 'Weight (lb.)'
WeightColumn ==
    /\ selpc = "weight"
    /\ weightCell' = to_weight(Num(value), units, sigfigs)
    /\ selpc' = "done"
    /\ UNCHANGED <<value, units, sigfigs, nofree, priceCell, boxVars, runVars>>

NextSelect == PriceColumn \/ WeightColumn

SpecSelect == InitSelect /\ [][NextSelect]_vars

(* ------------------- selector: claims ---------------------------------- *)
HasUnits == DOMAIN units # {}
Whole(u) == value \div units[u]
AllZero == \A u \in DOMAIN units : Whole(u) = 0
Shown(cell) == IF cell.shown.tier = "int" THEN cell.shown.x ELSE -1

\* C1 (as stated): for every unit table, the empty one included,
\* to_currency(0, units, sigfigs, nofree=True) displays exactly 1 of the unit
\* with the smallest ratio.
C1_AnyTable ==
    (selpc # "price" /\ value = 0 /\ nofree) =>
        /\ priceCell.kind = "cell"
        /\ Shown(priceCell) = 1
        /\ \A u \in DOMAIN units : units[priceCell.label] <= units[u]

\* C1 (amended): for every non-empty unit table and every sigfigs >= 1,
\* to_currency(0, units, sigfigs, nofree=True) displays exactly 1 of the unit
\* with the smallest ratio.
C1_ZeroFloorsToOne ==
    (selpc # "price" /\ value = 0 /\ nofree /\ HasUnits) =>
        /\ priceCell.kind = "cell"
        /\ Shown(priceCell) = 1
        /\ priceCell.label \in DOMAIN units
        /\ \A u \in DOMAIN units : units[priceCell.label] <= units[u]

C1_Witness ==
    /\ selpc # "price" /\ value = 0 /\ nofree
    /\ Cardinality(DOMAIN units) = 3
    /\ \E u \in DOMAIN units : units[u] < units[priceCell.pick]
    /\ Shown(priceCell) = 1

\* C2: with sigfigs = 1 and value > 0 the displayed quantity of to_currency
\* and to_weight is in 1..9, unless no unit has a whole count in 1..9.
C2_OneDigit ==
    (/\ selpc = "done" /\ HasUnits /\ value > 0 /\ sigfigs = 1
     /\ \E u \in DOMAIN units : Whole(u) \in 1..9) =>
        /\ Shown(priceCell) \in 1..9
        /\ Shown(weightCell) \in 1..9

C2_Witness ==
    /\ selpc = "done" /\ sigfigs = 1
    /\ \E u \in DOMAIN units : Whole(u) >= 10
    /\ \E u \in DOMAIN units : Whole(u) \in 1..9
    /\ \E u \in DOMAIN units : Whole(u) = 0
    /\ Shown(priceCell) \in 1..9
    /\ Shown(weightCell) \in 1..9

ClampCase == nofree /\ priceCell.override /\ priceCell.num = 1

\* C3 (as stated): the returned quantity equals value / ratio(returned label)
\* and is never negative, the only exception being the nofree clamp to 1.
C3_ExactQuotient ==
    (selpc = "done" /\ HasUnits) =>
        /\ priceCell.num >= 0
        /\ ClampCase \/ priceCell.num * units[priceCell.label] = value
        /\ weightCell.num >= 0
        /\ weightCell.num * units[weightCell.label] = value

\* C3 (amended): the returned quantity is the whole part of
\* value / ratio(returned label), floor(value / ratio), and is never negative,
\* the only exception being the nofree clamp to 1.
C3_FloorQuotient ==
    (selpc = "done" /\ HasUnits) =>
        /\ priceCell.num >= 0
        /\ ClampCase \/ priceCell.num = value \div units[priceCell.label]
        /\ weightCell.num >= 0
        /\ weightCell.num = value \div units[weightCell.label]

C3_Witness ==
    /\ selpc = "done" /\ HasUnits
    /\ priceCell.num > 0
    /\ priceCell.num * units[priceCell.label] < value
    /\ weightCell.num * units[weightCell.label] < value

\* The order and the digit count of the claim, stated without the code's sort
\* and logarithm.
Digits(n) == IF n = 0 THEN 0 ELSE CHOOSE d \in 1..6 : 10^(d-1) <= n /\ n < 10^d
ComesBefore(a, b) ==
    \/ Whole(a) < Whole(b)
    \/ Whole(a) = Whole(b) /\ LabelRank(a) < LabelRank(b)
Qualifying == {u \in DOMAIN units : Digits(Whole(u)) >= sigfigs}
ExpectedPick ==
    IF Qualifying # {}
    THEN CHOOSE u \in Qualifying : \A o \in Qualifying \ {u} : ComesBefore(u, o)
    ELSE CHOOSE u \in DOMAIN units : \A o \in DOMAIN units \ {u} : ComesBefore(o, u)

\* C8: before the zero override to_currency and to_weight pick the same unit:
\* in ascending order of (floor(value / ratio), label) the first unit whose
\* whole count has at least sigfigs digits, and the last unit of that order
\* when none qualifies.
C8_SamePick ==
    (selpc = "done" /\ HasUnits) =>
        /\ priceCell.pick = ExpectedPick
        /\ weightCell.pick = ExpectedPick

C8_Witness ==
    /\ selpc = "done" /\ Cardinality(DOMAIN units) = 3 /\ sigfigs = 2
    /\ \E a, b \in DOMAIN units :
          /\ Whole(a) \in 1..9
          /\ priceCell.pick # a /\ priceCell.pick # b
          /\ Whole(b) > Whole(priceCell.pick)
    /\ weightCell.pick = priceCell.pick

\* C9: the displayed count is floor(value / ratio(displayed label)) unless
\* nofree clamps it to 1, and the smallest-denomination override, which
\* replaces the label but not the count, fires only when every unit's whole
\* count is 0.
C9_LabelCountConsistent ==
    (selpc = "done" /\ HasUnits) =>
        /\ priceCell.override => AllZero
        /\ weightCell.override => AllZero
        /\ ~ClampCase => Shown(priceCell) = value \div units[priceCell.label]
        /\ Shown(weightCell) = value \div units[weightCell.label]

C9_Witness ==
    /\ selpc = "done" /\ HasUnits /\ ~nofree /\ value > 0
    /\ priceCell.override /\ priceCell.label # priceCell.pick
    /\ weightCell.override /\ weightCell.label # weightCell.pick

(* ============================ string_box =============================== *)
\* the characters of a cell text: a letter, a blank, a newline
Chars == {"a", " ", "\n"}
IsSpace(c) == c \in {" ", "\n"}
Texts == UNION {[1..n -> Chars] : n \in 0..MaxLen}
Aligns == {"left", "right", "center"}

\* str.strip()
RECURSIVE LStrip(_)
LStrip(t) == IF t # <<>> /\ IsSpace(Head(t)) THEN LStrip(Tail(t)) ELSE t
RECURSIVE RStrip(_)
RStrip(t) ==
    IF t # <<>> /\ IsSpace(t[Len(t)]) THEN RStrip(SubSeq(t, 1, Len(t) - 1)) ELSE t
Strip(t) == RStrip(LStrip(t))

\* ' ' * n, empty for n <= 0
Spaces(n) == [i \in 1..n |-> " "]

pad(t, width, al) ==
    IF al = "left" THEN t \o Spaces(width - Len(t))
    ELSE IF al = "right" THEN Spaces(width - Len(t)) \o t
    ELSE LET n == width - Len(t)
         IN  Spaces(n - (n \div 2)) \o t \o Spaces(n \div 2)

\* variant: the quantifier of the pattern admits one character too many
ChunkLen_wide(t, width) ==
    LET ks == {k \in 1..(width + 1) :
                  /\ k + 1 <= Len(t)
                  /\ IsSpace(t[k + 1])
                  /\ \A j \in 1..k : t[j] # "\n"}
    IN  IF ks = {} THEN 0
        ELSE 1 + CHOOSE k \in ks : \A o \in ks : o <= k

\* len(re.match('.{1,w}\s', text)[0]), 0 when there is no match: the greedy
\* quantifier takes the longest run of 1..w non-newline characters that a
\* whitespace character follows.
ChunkLen(t, width) ==
    LET ks == {k \in 1..width :
                  /\ k + 1 <= Len(t)
                  /\ IsSpace(t[k + 1])
                  /\ \A j \in 1..k : t[j] # "\n"}
    IN  IF ks = {} THEN 0
        ELSE 1 + CHOOSE k \in ks : \A o \in ks : o <= k

\* variant: the slice of the rest starts one character early
HardRest_early(t, width) == Strip(SubSeq(t, width - 1, Len(t)))

\* text[w-1:].strip()
HardRest(t, width) == Strip(SubSeq(t, width, Len(t)))

\* text[0:w-1] + '-'
HardLine(t, width) == SubSeq(t, 1, width - 1) \o <<"-">>

InitBox ==
    /\ boxText \in Texts
    /\ w \in 2..MaxW   \* output_ascii uses the widths 8..24, scaled down here
    /\ align \in Aligns
    /\ text = boxText
    /\ lines = <<>>
    /\ boxpc = "call"
    /\ sigfigs = 1
    /\ SelIdle /\ RunIdle

\* lines 316-320: strip, the early return of a text that fits
BoxEnter ==
    /\ boxpc = "call"
    /\ text' = Strip(text)
    /\ IF Len(text') <= w
       THEN lines' = <<pad(text', w, align)>> /\ boxpc' = "done"
       ELSE lines' = <<>> /\ boxpc' = "loop"
    /\ UNCHANGED <<boxText, w, align, selVars, runVars>>

\* the loop ends: the while condition fails, or the rest fits and breaks
BoxLast ==
    /\ boxpc = "loop"
    /\ Len(text) <= w
    /\ lines' = IF Len(text) > 0 THEN Append(lines, pad(text, w, align)) ELSE lines
    /\ boxpc' = "done"
    /\ UNCHANGED <<boxText, w, align, text, selVars, runVars>>

\* chunk is None: the first word is too long
BoxHardSplit ==
    /\ boxpc = "loop"
    /\ Len(text) > w
    /\ ChunkLen(text, w) = 0
    /\ lines' = Append(lines, pad(HardLine(text, w), w, align))
    /\ text' = HardRest(text, w)
    /\ UNCHANGED <<boxText, w, align, boxpc, selVars, runVars>>

\* the words that fit go to one line
BoxWordWrap ==
    /\ boxpc = "loop"
    /\ Len(text) > w
    /\ ChunkLen(text, w) > 0
    /\ LET n == ChunkLen(text, w)
       IN  /\ lines' = Append(lines, pad(Strip(SubSeq(text, 1, n)), w, align))
           /\ text' = Strip(SubSeq(text, n + 1, Len(text)))
    /\ UNCHANGED <<boxText, w, align, boxpc, selVars, runVars>>

NextBox == BoxEnter \/ BoxLast \/ BoxHardSplit \/ BoxWordWrap

SpecBox == InitBox /\ [][NextBox]_vars

(* ------------------- string_box: claims -------------------------------- *)
HasHyphen(l) == \E i \in 1..Len(l) : l[i] = "-"

\* C7 (as stated): a text of length exactly w gives one line, a text longer
\* than w gives at least 2 lines, and every line is at most w characters.
C7_ByRawLength ==
    boxpc = "done" =>
        /\ Len(boxText) = w => Len(lines) = 1
        /\ Len(boxText) > w => Len(lines) >= 2
        /\ \A i \in 1..Len(lines) : Len(lines[i]) <= w

\* C7 (amended): with the length taken after the surrounding whitespace is
\* stripped and a width w >= 2: a text of stripped length at most w, so also
\* every text of length exactly w, gives one line, a text of stripped length
\* above w gives at least 2 lines, and every line is at most w characters.
C7_ByStrippedLength ==
    boxpc = "done" =>
        /\ Len(boxText) = w => Len(lines) = 1
        /\ Len(Strip(boxText)) <= w => Len(lines) = 1
        /\ Len(Strip(boxText)) > w => Len(lines) >= 2
        /\ \A i \in 1..Len(lines) : Len(lines[i]) <= w

C7_Witness ==
    /\ boxpc = "done"
    /\ Len(Strip(boxText)) > w
    /\ Len(lines) >= 3
    /\ \E i \in 1..Len(lines) : HasHyphen(lines[i])
    /\ \E i \in 1..Len(lines) : ~HasHyphen(lines[i]) /\ i < Len(lines)

\* C10: for every width w >= 2 every iteration of the wrapping loop that does
\* not break strictly shortens the remaining text, in the word-wrap branch
\* and in the hard-split branch.
C10_LoopShortensText ==
    [][(boxpc = "loop" /\ boxpc' = "loop" /\ w >= 2) => Len(text') < Len(text)]_vars

C10_Witness ==
    /\ boxpc = "loop"
    /\ Len(text) > 0
    /\ \E i \in 1..Len(lines) : HasHyphen(lines[i])
    /\ \E i \in 1..Len(lines) : ~HasHyphen(lines[i])

(* ================================ run ================================== *)
\* Rows of the source files.  Tags holds the cell split at ';'; an absent
\* Tags cell reads as the text 'nan'.  Price is in 1/100 gp, Weight in 1/16 lb.
Longsword == [Name |-> Str("Longsword"), Price |-> Num(1500), Weight |-> Num(48),
              Tags |-> <<"weapons", "Metal">>]
Shield    == [Name |-> Str("Shield"), Price |-> Num(1000), Weight |-> Num(96),
              Tags |-> <<"armor", "metal">>]
Bread     == [Name |-> Str("Bread"), Price |-> Num(0), Weight |-> NaN,
              Tags |-> <<"food">>]
Gem       == [Name |-> Str("Gem"), Price |-> NaN, Weight |-> Str("varies"),
              Tags |-> <<"nan">>]
ItemPool == {Longsword, Shield, Bread, Gem}
ItemLists == UNION {[1..n -> ItemPool] : n \in 0..MaxItems}

\* pandas.read_csv(src) of the files a run can name
read_csv(src) ==
    CASE src = "items.csv"  -> <<Longsword, Shield>>
      [] src = "custom.csv" -> <<Bread, Gem>>
      [] src = "empty.csv"  -> <<>>
FileNames == {"items.csv", "custom.csv", "empty.csv"}
SourceLists == UNION {[1..n -> FileNames] : n \in 1..MaxFiles}

None == [none |-> TRUE]
DataFrame(rows) == [rows |-> rows]

\* str.lower() on the tags that occur
lower(t) == IF t = "Metal" THEN "metal" ELSE t
LowerAll(tags) == {lower(tags[i]) : i \in 1..Len(tags)}

\* the tag lists an option can carry; <<>> is the option not given
TagLists == {<<"weapons">>, <<"armor">>, <<"Metal">>, <<"metal", "food">>,
             <<"metal", "weapons">>}

\* variant: the break after a matching tag is missing
RECURSIVE includeRows_nobreak(_, _)
includeRows_nobreak(rows, tags) ==
    IF rows = <<>> THEN <<>>
    ELSE LET row == Head(rows)
             hits == Cardinality({i \in 1..Len(tags) : lower(tags[i]) \in LowerAll(row.Tags)})
         IN  [i \in 1..hits |-> row] \o includeRows_nobreak(Tail(rows), tags)

RECURSIVE includeRows(_, _)
includeRows(rows, tags) ==
    IF rows = <<>> THEN <<>>
    ELSE LET row == Head(rows)
             keep == \E i \in 1..Len(tags) : lower(tags[i]) \in LowerAll(row.Tags)
         IN  (IF keep THEN <<row>> ELSE <<>>) \o includeRows(Tail(rows), tags)

includeTags(df, tags) == DataFrame(includeRows(df.rows, tags))

excludeTags(df, tags) ==
    DataFrame(SelectSeq(df.rows,
        LAMBDA row : \A i \in 1..Len(tags) : lower(tags[i]) \notin LowerAll(row.Tags)))

requireTags(df, tags) ==
    DataFrame(SelectSeq(df.rows,
        LAMBDA row : \A i \in 1..Len(tags) : lower(tags[i]) \in LowerAll(row.Tags)))

format_entry(n) ==
    IF n.kind = "str" THEN n
    ELSE IF n.kind = "nan" THEN Str("--")
    ELSE n

\* the standard units, lines 106-110 and 119-123, in grains
StdWeights == ("ton" :> 32000) @@ ("lb." :> 16) @@ ("oz" :> 1)
StdCurrencies == ("gp" :> 100) @@ ("sp" :> 10) @@ ("cp" :> 1)

\* for c in kwargs.currencies: currency_dict[xx] = vv
RECURSIVE AddUnits(_, _)
AddUnits(dict, opts) ==
    IF opts = <<>> THEN dict
    ELSE AddUnits((Head(opts)[1] :> Head(opts)[2]) @@ dict, Tail(opts))

InitRun ==
    /\ source_files \in SourceLists
    /\ include \in {<<>>, <<"weapons">>, <<"metal", "food">>}
    /\ require \in {<<>>, <<"Metal">>}
    /\ exclude \in {<<>>, <<"armor">>}
    /\ nostd \in BOOLEAN
    /\ free \in BOOLEAN
    /\ sigfigs = 1
    /\ currencies \in {<<>>, << <<"ep", 50>> >>}
    /\ weights \in {<<>>, << <<"kg", 35>> >>}
    /\ collection = None
    /\ loaded = None
    /\ nextSrc = 1
    /\ currency_dict = <<>>
    /\ weight_dict = <<>>
    /\ out_rows = <<>>
    /\ runpc = "load"
    /\ SelIdle /\ BoxIdle

AfterLoad(n) == IF n > Len(source_files) THEN "include" ELSE "load"

\* lines 91-94: the first source file becomes the collection
LoadFirst ==
    /\ runpc = "load"
    /\ nextSrc <= Len(source_files)
    /\ collection = None
    /\ collection' = DataFrame(read_csv(source_files[nextSrc]))
    /\ nextSrc' = nextSrc + 1
    /\ runpc' = AfterLoad(nextSrc')
    /\ loaded' = IF runpc' = "include" THEN collection' ELSE loaded
    /\ UNCHANGED <<source_files, include, require, exclude, nostd, free,
                   currencies, weights, currency_dict, weight_dict, out_rows,
                   sigfigs, selVars, boxVars>>

\* lines 95-96 where DataFrame.append returns a new frame: the result of
\* collection.append(df) is dropped, collection is not changed
LoadAppendReturns ==
    /\ runpc = "load"
    /\ nextSrc <= Len(source_files)
    /\ collection # None
    /\ nextSrc' = nextSrc + 1
    /\ runpc' = AfterLoad(nextSrc')
    /\ loaded' = IF runpc' = "include" THEN collection ELSE loaded
    /\ UNCHANGED <<source_files, include, require, exclude, nostd, free,
                   currencies, weights, collection, currency_dict, weight_dict,
                   out_rows, sigfigs, selVars, boxVars>>

\* lines 95-96 where DataFrame has no append (pandas 2): AttributeError
LoadAppendRaises ==
    /\ runpc = "load"
    /\ nextSrc <= Len(source_files)
    /\ collection # None
    /\ runpc' = "AttributeError"
    /\ UNCHANGED <<source_files, include, require, exclude, nostd, free,
                   currencies, weights, collection, loaded, nextSrc,
                   currency_dict, weight_dict, out_rows, sigfigs, selVars, boxVars>>

\* lines 97-98
IncludeStep ==
    /\ runpc = "include"
    /\ collection' = IF include # <<>> THEN includeTags(collection, include)
                     ELSE collection
    /\ runpc' = "require"
    /\ UNCHANGED <<source_files, include, require, exclude, nostd, free,
                   currencies, weights, loaded, nextSrc, currency_dict,
                   weight_dict, out_rows, sigfigs, selVars, boxVars>>

\* lines 99-100
RequireStep ==
    /\ runpc = "require"
    /\ collection' = IF require # <<>> THEN requireTags(collection, require)
                     ELSE collection
    /\ runpc' = "exclude"
    /\ UNCHANGED <<source_files, include, require, exclude, nostd, free,
                   currencies, weights, loaded, nextSrc, currency_dict,
                   weight_dict, out_rows, sigfigs, selVars, boxVars>>

\* lines 101-102
ExcludeStep ==
    /\ runpc = "exclude"
    /\ collection' = IF exclude # <<>> THEN excludeTags(collection, exclude)
                     ELSE collection
    /\ runpc' = "dicts"
    /\ UNCHANGED <<source_files, include, require, exclude, nostd, free,
                   currencies, weights, loaded, nextSrc, currency_dict,
                   weight_dict, out_rows, sigfigs, selVars, boxVars>>

\* lines 104-129
BuildDicts ==
    /\ runpc = "dicts"
    /\ weight_dict' = AddUnits(IF nostd = FALSE THEN StdWeights ELSE <<>>, weights)
    /\ currency_dict' = AddUnits(IF nostd = FALSE THEN StdCurrencies ELSE <<>>, currencies)
    /\ runpc' = "store"
    /\ UNCHANGED <<source_files, include, require, exclude, nostd, free,
                   currencies, weights, collection, loaded, nextSrc, out_rows,
                   sigfigs, selVars, boxVars>>

\* create_store, lines 225-234: one row of item_table.  sort_values (line 215)
\* returns a sorted copy that is dropped, so the rows keep their order.  An
\* exception of to_currency or to_weight leaves create_store and run.
CreateStoreRow ==
    /\ runpc = "store"
    /\ Len(out_rows) < Len(collection.rows)
    /\ LET row == collection.rows[Len(out_rows) + 1]
           price == to_currency(row.Price, currency_dict, sigfigs, free = FALSE)
           weight == to_weight(row.Weight, weight_dict, sigfigs)
       IN  IF price.kind = "ValueError" \/ weight.kind = "ValueError"
           THEN runpc' = "ValueError" /\ out_rows' = out_rows
           ELSE /\ out_rows' = Append(out_rows,
                      [Name |-> format_entry(row.Name), Price |-> price,
                       Weight |-> weight])
                /\ runpc' = "store"
    /\ UNCHANGED <<source_files, include, require, exclude, nostd, free,
                   currencies, weights, collection, loaded, nextSrc,
                   currency_dict, weight_dict, sigfigs, selVars, boxVars>>

\* create_store returns the store; run prints it and writes the output files
Output ==
    /\ runpc = "store"
    /\ Len(out_rows) = Len(collection.rows)
    /\ runpc' = "done"
    /\ UNCHANGED <<source_files, include, require, exclude, nostd, free,
                   currencies, weights, collection, loaded, nextSrc,
                   currency_dict, weight_dict, out_rows, sigfigs, selVars, boxVars>>

Next ==
    \/ LoadFirst \/ LoadAppendReturns \/ LoadAppendRaises
    \/ IncludeStep \/ RequireStep \/ ExcludeStep
    \/ BuildDicts \/ CreateStoreRow \/ Output

Spec == InitRun /\ [][Next]_vars

\* the tag filters of run on every collection a load can leave
InitFilter ==
    /\ source_files = <<>>
    /\ include \in TagLists \cup {<<>>}
    /\ require \in TagLists \cup {<<>>}
    /\ exclude \in TagLists \cup {<<>>}
    /\ nostd = FALSE /\ free = FALSE /\ sigfigs = 1
    /\ currencies = <<>> /\ weights = <<>>
    /\ collection \in {DataFrame(rows) : rows \in ItemLists}
    /\ loaded = collection
    /\ nextSrc = 1
    /\ currency_dict = <<>> /\ weight_dict = <<>> /\ out_rows = <<>>
    /\ runpc = "include"
    /\ SelIdle /\ BoxIdle

NextFilter == IncludeStep \/ RequireStep \/ ExcludeStep

SpecFilter == InitFilter /\ [][NextFilter]_vars

(* ------------------------- run: claims --------------------------------- *)
RECURSIVE AllRows(_)
AllRows(files) ==
    IF files = <<>> THEN <<>> ELSE read_csv(Head(files)) \o AllRows(Tail(files))

\* C4: with several source files, the collection handed to the filters and
\* to create_store holds the rows of every source file, in order.
C4_AllSourcesConcatenated ==
    runpc \in {"include", "require", "exclude", "dicts", "store", "done", "ValueError"} =>
        loaded = DataFrame(AllRows(source_files))

BadCell(c) == c.kind \in {"nan", "str"}

\* C5: a Price or Weight cell that is absent or not a number does not abort
\* the run; create_store renders it as "--" and goes on to the other rows.
C5_BadCellsRenderSentinel ==
    /\ runpc # "ValueError"
    /\ \A i \in 1..Len(out_rows) :
          /\ BadCell(collection.rows[i].Price) => out_rows[i].Price = Str("--")
          /\ BadCell(collection.rows[i].Weight) => out_rows[i].Weight = Str("--")

\* C6: the tag filters commute and are idempotent: include, require, exclude
\* gives the same rows in the same order as require, include, exclude, and
\* each filter applied twice with the same tags gives what it gives once.
C6_FiltersCommuteIdempotent ==
    LET inc == includeTags(loaded, include)
        req == requireTags(loaded, require)
        exc == excludeTags(loaded, exclude)
    IN  /\ excludeTags(requireTags(inc, require), exclude)
             = excludeTags(includeTags(req, include), exclude)
        /\ includeTags(inc, include) = inc
        /\ requireTags(req, require) = req
        /\ excludeTags(exc, exclude) = exc
        /\ (runpc = "dicts" /\ include # <<>> /\ require # <<>> /\ exclude # <<>>) =>
              collection = excludeTags(includeTags(req, include), exclude)

C6_Witness ==
    /\ runpc = "dicts"
    /\ include # <<>> /\ require # <<>> /\ exclude # <<>>
    /\ Len(includeTags(loaded, include).rows) < Len(loaded.rows)
    /\ Len(requireTags(loaded, require).rows) < Len(loaded.rows)
    /\ Len(excludeTags(loaded, exclude).rows) < Len(loaded.rows)
    /\ Len(collection.rows) > 0
    /\ collection # requireTags(includeTags(loaded, include), require)

====
